---- MODULE Spec2Model ----
(***************************************************************************)
(* rest_framework_swagger/docgenerator.py: DocumentationGenerator.         *)
(*                                                                         *)
(* generate(apis) builds one PathDocumentation per route; get_operations   *)
(* builds the operations of one route; get_models collects the serializer  *)
(* classes of all routes (_get_serializer_set) and maps each to a model    *)
(* (_get_serializer_fields).  The method introspectors and the helpers of  *)
(* introspectors.py are collaborators: they are modelled as read-only      *)
(* queries over the handler class, as the specification describes them.    *)
(***************************************************************************)
EXTENDS Integers, Sequences, FiniteSets, TLC

VARIABLES
    apis,         \* the route list handed to generate / get_models
    classFields,  \* serializer class -> its fields (serializer().get_fields())
    request,      \* handler class -> its request slot (callback.request)
    nreq,         \* number of HttpRequest objects constructed so far
    pc,           \* position of the single-threaded caller
    i,            \* index of the route the running call works on
    api_docs,     \* generate: the list built so far
    serializers,  \* _get_serializer_set: the set built so far
    out1,         \* outcome of the first generate(apis)
    out2,         \* outcome of the second generate(apis)
    models,       \* outcome of get_models(apis)
    props,        \* outcome of _get_serializer_fields (field-mapping runs)
    calls         \* interleaved runs: thread -> its generation call

vars == <<apis, classFields, request, nreq, pc, i, api_docs, serializers,
          out1, out2, models, props, calls>>

(***************************** bounds **************************************)
MaxRoutes == 2
MaxFields == 2
MaxConcRoutes == 2

(************************* Python values ***********************************)
\* Scalars are strings: None, the empty string '', or a class identity.
None == "None"
Empty == ""
\* hasattr(callback, 'get_serializer_class') is false
NoAttr == "<no attribute>"

HttpMethods == {"GET", "POST"}

\* Serializer classes, by identity.  app1.A and app2.A are two classes with
\* the same bare name.
SerializerClasses == {"app1.A", "app2.A", "app1.B"}

\* serializer.__name__
ClassName(c) == IF c = "app1.B" THEN "B" ELSE "A"

\* bool(v) for a scalar: None and '' are false, a class is true
Truthy(v) == v \notin {None, Empty}

\* A request/response override: a scalar or a dict keyed by HTTP method.
NoMap == [m \in {} |-> None]
Scalar(v) == [isdict |-> FALSE, val |-> v, map |-> NoMap]
Dict(f) == [isdict |-> TRUE, val |-> None, map |-> f]

\* Outcome of a call or of a loop body: a returned value, or an uncaught
\* KeyError, which carries no value.
Returned(v) == [raised |-> FALSE, value |-> v]
Raised(nothing) == [raised |-> TRUE, value |-> nothing]

(*********************** handlers and routes *******************************)
\* A handler class, as far as the generator and its introspectors read it.
\*   serializer     : what get_serializer_class() returns, or NoAttr
\*   response_class : the response override the method introspectors report
\*   request_class  : the request override the method introspectors report
\*   methods        : the HTTP methods the handler introspector enumerates
\*   params         : the methods whose parameter list is not empty
\*   doc            : the docstring, or None
Handler(vs, ser, resp, req, ms, ps, d) ==
    [viewset |-> vs, serializer |-> ser, response_class |-> resp,
     request_class |-> req, methods |-> ms, params |-> ps, doc |-> d]

Route(p, h) == [path |-> p, pattern |-> p, callback |-> h]

\* ViewSetIntrospector / APIViewIntrospector: the sequence of method
\* introspectors of a handler, one per HTTP method it serves.
IntrospectorKind(callback) ==
    IF callback.viewset THEN "ViewSetIntrospector" ELSE "APIViewIntrospector"

MethodIntrospectors(callback, path, pattern) ==
    [k \in 1..Len(callback.methods) |->
        [parent |-> IntrospectorKind(callback), callback |-> callback,
         path |-> path, method |-> callback.methods[k]]]

\* The method introspector's queries.
get_http_method(mi) == mi.method
get_response_class(mi) == mi.callback.response_class
get_request_class(mi) == mi.callback.request_class
get_serializer_class(mi) ==
    IF mi.callback.serializer = NoAttr THEN None ELSE mi.callback.serializer
get_summary(mi) == IF mi.callback.doc = None THEN "" ELSE mi.callback.doc
get_nickname(mi) == mi.method
get_notes(mi) == IF mi.callback.doc = None THEN "" ELSE mi.callback.doc
get_parameters(mi) ==
    IF mi.method \in mi.callback.params THEN <<"param">> ELSE <<>>

\* IntrospectorHelper
get_view_description(callback) ==
    IF callback.doc = None THEN "" ELSE callback.doc
get_serializer_name(serializer) ==
    IF serializer = None THEN None ELSE ClassName(serializer)

(**************************** get_operations *******************************)
\* Mutant: a mapping is read at "GET" whatever the current method.
ResponseSerializerAtGet(mi) ==
    LET response_class == get_response_class(mi)
    IN  IF response_class = Scalar(None)
        THEN Returned(get_serializer_class(mi))
        ELSE IF response_class # Scalar(Empty)
             THEN IF response_class.isdict
                  THEN IF "GET" \in DOMAIN response_class.map
                       THEN Returned(response_class.map["GET"])
                       ELSE Raised(None)
                  ELSE Returned(response_class.val)
             ELSE Returned(None)

\* Mutant: "if not response_class" in place of "if response_class is None":
\* an empty override falls back to the default serializer.
ResponseSerializerEmptyAsNone(mi) ==
    LET http_method == get_http_method(mi)
        response_class == get_response_class(mi)
    IN  IF response_class \in {Scalar(None), Scalar(Empty)}
        THEN Returned(get_serializer_class(mi))
        ELSE IF response_class.isdict
             THEN IF http_method \in DOMAIN response_class.map
                  THEN Returned(response_class.map[http_method])
                  ELSE Raised(None)
             ELSE Returned(response_class.val)

\* Lines 57-65: the serializer of one operation, or the KeyError of
\* serializer[http_method].
ResponseSerializer(mi) ==
    LET http_method == get_http_method(mi)
        response_class == get_response_class(mi)
    IN  IF response_class = Scalar(None)
        THEN Returned(get_serializer_class(mi))
        ELSE IF response_class # Scalar(Empty)
             THEN IF response_class.isdict
                  THEN IF http_method \in DOMAIN response_class.map
                       THEN Returned(response_class.map[http_method])
                       ELSE Raised(None)
                  ELSE Returned(response_class.val)
             ELSE Returned(None)

\* Lines 67-80: the operation dict; a key is set only under its condition.
WithResponseClass(operation, serializer) ==
    IF Truthy(serializer)
    THEN ("responseClass" :> get_serializer_name(serializer)) @@ operation
    ELSE operation

\* Mutant: the parameters key is set without the test of line 79.
WithParametersAlways(operation, parameters) ==
    ("parameters" :> parameters) @@ operation

WithParameters(operation, parameters) ==
    IF Len(parameters) > 0
    THEN ("parameters" :> parameters) @@ operation
    ELSE operation

Operation(mi, serializer) ==
    LET operation == [httpMethod |-> get_http_method(mi),
                      summary |-> get_summary(mi),
                      nickname |-> get_nickname(mi),
                      notes |-> get_notes(mi)]
    IN  WithParameters(WithResponseClass(operation, serializer),
                       get_parameters(mi))

\* Lines 47-84: the loop over the method introspectors.
RECURSIVE OperationsLoop(_, _, _)
OperationsLoop(introspector, k, operations) ==
    IF k > Len(introspector)
    THEN Returned(operations)
    ELSE LET s == ResponseSerializer(introspector[k])
         IN  IF s.raised
             THEN Raised(<<>>)
             ELSE OperationsLoop(introspector, k + 1,
                     Append(operations, Operation(introspector[k], s.value)))

get_operations(api) ==
    OperationsLoop(
        MethodIntrospectors(api.callback, api.path, api.pattern), 1, <<>>)

(*************************** _get_serializer_set ***************************)
\* Lines 173-175
_get_serializer_class(callback) ==
    IF callback.serializer # NoAttr THEN callback.serializer ELSE None

\* Mutant: both names of line 137 reach the request accessor.
MethodToCallRequestOnly(mi, method_name) ==
    LET http_method == get_http_method(mi)
        serializer == get_request_class(mi)
    IN  IF serializer.isdict
        THEN IF http_method \in DOMAIN serializer.map
             THEN Returned(serializer.map[http_method])
             ELSE Raised(None)
        ELSE Returned(serializer.val)

\* Lines 138-141: one accessor of one method introspector, a dict resolved
\* by the current HTTP method.
MethodToCall(mi, method_name) ==
    LET http_method == get_http_method(mi)
        serializer == IF method_name = "get_request_class"
                      THEN get_request_class(mi)
                      ELSE get_response_class(mi)
    IN  IF serializer.isdict
        THEN IF http_method \in DOMAIN serializer.map
             THEN Returned(serializer.map[http_method])
             ELSE Raised(None)
        ELSE Returned(serializer.val)

\* Lines 126-127 and 142-143: "if serializer: serializers.add(serializer)"
AddSerializer(set, serializer) ==
    IF Truthy(serializer) THEN set \cup {serializer} ELSE set

\* Lines 134-143: the loop over the method introspectors; for each one the
\* request accessor, then the response accessor.
RECURSIVE SerializerLoop(_, _, _)
SerializerLoop(introspector, k, set) ==
    IF k > Len(introspector)
    THEN Returned(set)
    ELSE LET rq == MethodToCall(introspector[k], "get_request_class")
             rs == MethodToCall(introspector[k], "get_response_class")
         IN  IF rq.raised \/ rs.raised
             THEN Raised({})
             ELSE SerializerLoop(introspector, k + 1,
                     AddSerializer(AddSerializer(set, rq.value), rs.value))

\* Mutant: "serializers = set()" inside the loop over the routes.
SerializersOfApiAlone(api, set) ==
    SerializerLoop(
        MethodIntrospectors(api.callback, api.path, api.pattern), 1,
        AddSerializer({}, _get_serializer_class(api.callback)))

\* Lines 119-143: the body of the loop over the routes.
SerializersOfApi(api, set) ==
    SerializerLoop(
        MethodIntrospectors(api.callback, api.path, api.pattern), 1,
        AddSerializer(set, _get_serializer_class(api.callback)))

(************************* _get_serializer_fields **************************)
\* An attribute of a field object: missing, a plain value, or a
\* zero-argument callable returning v.
Missing == [kind |-> "missing", v |-> ""]
Value(x) == [kind |-> "value", v |-> x]
Callable(x) == [kind |-> "callable", v |-> x]

\* getattr(obj, attr, default)
getattr(obj, attr, default) ==
    IF obj[attr].kind = "missing" THEN default ELSE obj[attr]

\* introspectors.get_resolved_value(obj, attr, default): the attribute,
\* called when it is callable.
get_resolved_value(obj, attr, default) ==
    LET value == getattr(obj, attr, default)
    IN  IF value.kind = "callable" THEN Value(value.v) ELSE value

\* Line 167
ValueType == "RANGE"

\* Mutant: a field without "required" is reported as not required.
PropertyRequiredFalse(field) ==
    [type |-> field.type_label,
     required |-> getattr(field, "required", Value("False")),
     allowableValues |->
        [min |-> getattr(field, "min_length", Value(None)),
         max |-> getattr(field, "max_length", Value(None)),
         defaultValue |-> get_resolved_value(field, "default", Value(None)),
         readOnly |-> getattr(field, "read_only", Value(None)),
         valueType |-> ValueType]]

\* Lines 159-169: the property of one field.
Property(field) ==
    [type |-> field.type_label,
     required |-> getattr(field, "required", Value(None)),
     allowableValues |->
        [min |-> getattr(field, "min_length", Value(None)),
         max |-> getattr(field, "max_length", Value(None)),
         defaultValue |-> get_resolved_value(field, "default", Value(None)),
         readOnly |-> getattr(field, "read_only", Value(None)),
         valueType |-> ValueType]]

\* Lines 147-171.  serializer().get_fields() is classFields[serializer].
_get_serializer_fields(serializer) ==
    IF ~Truthy(serializer)
    THEN None
    ELSE LET fields == classFields[serializer]
         IN  [name \in DOMAIN fields |-> Property(fields[name])]

(******************************* get_models ********************************)
\* Lines 98-101: the key under which a serializer's model is stored.
ModelKey(serializer) == ClassName(serializer)

ModelDescriptor(serializer) ==
    [id |-> ClassName(serializer),
     properties |-> _get_serializer_fields(serializer)]

\* Lines 93-103: the loop over the set assigns models[key] once per class;
\* of the classes with one key the last one iterated stays, and a set's
\* iteration order is not fixed: last[key] is any class of the set with
\* that key.
ModelMaps(set) ==
    LET keys == {ModelKey(c) : c \in set}
    IN  {[key \in keys |-> ModelDescriptor(last[key])] :
            last \in {f \in [keys -> set] :
                        \A key \in keys : ModelKey(f[key]) = key}}

(******************************* inputs ************************************)
Paths == {"/a", "/b"}

MapsOver(D, V) == {Dict(f) : f \in [D -> V]}

\* Handlers of every shape, for route lists of one route.
ResponseOverrides ==
    {Scalar(None), Scalar(Empty), Scalar("app2.A")}
    \cup MapsOver(HttpMethods, {"app1.A", "app1.B", Empty})
    \cup MapsOver({"GET"}, {"app1.B"})
    \cup MapsOver({}, {None})

RequestOverrides ==
    {Scalar(None), Scalar(Empty), Scalar("app1.B")}
    \cup MapsOver(HttpMethods, {"app2.A"})
    \cup MapsOver({"GET"}, {"app2.A"})

Handlers ==
    {Handler(vs, ser, resp, req, ms, ps, d) :
        vs \in BOOLEAN, ser \in {NoAttr, None, "app1.A"},
        resp \in ResponseOverrides, req \in RequestOverrides,
        ms \in {<<>>, <<"GET">>, <<"GET", "POST">>},
        ps \in {{}, {"POST"}}, d \in {None, "A view."}}

\* Fewer shapes, for longer route lists: each kind of override, well formed
\* and not, with and without a default serializer.
CoreOverrides ==
    {<<Scalar(None), Scalar(None)>>,
     <<Scalar("app2.A"), Scalar(None)>>,
     <<Dict([m \in {"GET"} |-> "app1.B"]), Scalar(None)>>,
     <<Scalar(None), Dict([m \in {"GET"} |-> "app2.A"])>>}

CoreHandlers ==
    {Handler(FALSE, ser, o[1], o[2], ms, {}, None) :
        ser \in {None, "app1.A"}, o \in CoreOverrides,
        ms \in {<<"GET">>, <<"GET", "POST">>}}

Routes(hs) == {Route(p, h) : p \in Paths, h \in hs}

RouteLists ==
    {<<>>}
    \cup [1..1 -> Routes(Handlers)]
    \cup UNION {[1..n -> Routes(CoreHandlers)] : n \in 2..MaxRoutes}

\* The fields of the serializer classes of the application.
FieldOf(t, req, mn, mx, dflt, ro) ==
    [type_label |-> t, required |-> req, min_length |-> mn,
     max_length |-> mx, default |-> dflt, read_only |-> ro]

AppFields ==
    [c \in SerializerClasses |->
        IF c = "app1.A"
        THEN ("name" :> FieldOf("string", Value("True"), Missing, Missing,
                                Missing, Missing))
        ELSE IF c = "app2.A"
        THEN ("title" :> FieldOf("string", Missing, Missing, Value("80"),
                                 Value("untitled"), Missing))
        ELSE ("count" :> FieldOf("integer", Value("False"), Missing, Missing,
                                 Callable("0"), Value("True")))]

(*************************** the request slot ******************************)
\* callback.request before any call: no such attribute.
NoRequest == [owner |-> "nobody", serial |-> 0]

\* HttpRequest(): a new object, constructed by `owner`.
HttpRequest(owner) == [owner |-> owner, serial |-> nreq + 1]

HandlersOf(routes) == {routes[k].callback : k \in DOMAIN routes}

\* Mutant: the slot is left as the last call set it.
KeepRequest(callback, owner) == UNCHANGED <<request, nreq>>

\* Lines 40 and 122: callback.request = HttpRequest()
SetRequest(callback, owner) ==
    /\ request' = [request EXCEPT ![callback] = HttpRequest(owner)]
    /\ nreq' = nreq + 1

(************************* the sequential caller ***************************)
\* r1 = generate(apis); r2 = generate(apis); m = get_models(apis), each call
\* running to its return or to its exception.
NoModels == [key \in {} |-> None]

Idle == [t \in {} |-> None]

Init ==
    /\ apis \in RouteLists
    /\ classFields = AppFields
    /\ request = [h \in HandlersOf(apis) |-> NoRequest]
    /\ nreq = 0
    /\ pc = "call1"
    /\ i = 0
    /\ api_docs = <<>>
    /\ serializers = {}
    /\ out1 = Returned(<<>>)
    /\ out2 = Returned(<<>>)
    /\ models = Returned(NoModels)
    /\ props = NoModels
    /\ calls = Idle

After(p) ==
    IF p \in {"call1", "gen1"} THEN "call2"
    ELSE IF p \in {"call2", "gen2"} THEN "call3"
    ELSE "done"

\* Mutant: the list is kept on the generator between calls.
KeptApiDocs(previous) == previous

\* Line 16: api_docs = []
NewApiDocs(previous) == <<>>

\* Lines 18-22
PathDocumentation(api, operations) ==
    [description |-> get_view_description(api.callback),
     path |-> api.path,
     operations |-> operations]

\* Mutant: a route whose path is already documented is merged away.
AppendDocMerged(docs, doc) ==
    IF \E k \in DOMAIN docs : docs[k].path = doc.path
    THEN docs
    ELSE Append(docs, doc)

\* Line 18: api_docs.append(...)
AppendDoc(docs, doc) == Append(docs, doc)

\* Mutant: the exception is caught and the list built so far is returned.
GeneratePartial(built) == Returned(built)

\* A call of generate that raised: the exception leaves generate (nothing
\* in lines 12-24 or 26-84 catches it), and with it the list built so far.
GenerateRaised(built) == Raised(<<>>)

SetOut(outcome) ==
    /\ out1' = IF pc = "gen1" THEN outcome ELSE out1
    /\ out2' = IF pc = "gen2" THEN outcome ELSE out2

CallGenerate ==
    /\ pc \in {"call1", "call2"}
    /\ pc' = IF pc = "call1" THEN "gen1" ELSE "gen2"
    /\ api_docs' = NewApiDocs(api_docs)
    /\ i' = 1
    /\ UNCHANGED <<apis, classFields, request, nreq, serializers, out1, out2,
                   models, props, calls>>

\* One iteration of the loop of generate (lines 17-22), get_operations
\* included (lines 36-84).
GenerateStep ==
    /\ pc \in {"gen1", "gen2"}
    /\ i <= Len(apis)
    /\ SetRequest(apis[i].callback, pc)
    /\ LET operations == get_operations(apis[i])
       IN  IF operations.raised
           THEN /\ SetOut(GenerateRaised(api_docs))
                /\ pc' = After(pc)
                /\ UNCHANGED <<i, api_docs>>
           ELSE /\ api_docs' = AppendDoc(api_docs,
                        PathDocumentation(apis[i], operations.value))
                /\ i' = i + 1
                /\ UNCHANGED <<pc, out1, out2>>
    /\ UNCHANGED <<apis, classFields, serializers, models, props, calls>>

\* Line 24: return api_docs
GenerateReturn ==
    /\ pc \in {"gen1", "gen2"}
    /\ i > Len(apis)
    /\ SetOut(Returned(api_docs))
    /\ pc' = After(pc)
    /\ UNCHANGED <<apis, classFields, request, nreq, i, api_docs, serializers,
                   models, props, calls>>

\* Lines 91 and 116: get_models enters _get_serializer_set.
CallGetModels ==
    /\ pc = "call3"
    /\ pc' = "models"
    /\ serializers' = {}
    /\ i' = 1
    /\ UNCHANGED <<apis, classFields, request, nreq, api_docs, out1, out2,
                   models, props, calls>>

\* One iteration of the loop of _get_serializer_set (lines 118-143).
SerializerSetStep ==
    /\ pc = "models"
    /\ i <= Len(apis)
    /\ SetRequest(apis[i].callback, pc)
    /\ LET found == SerializersOfApi(apis[i], serializers)
       IN  IF found.raised
           THEN /\ models' = Raised(NoModels)
                /\ pc' = After(pc)
                /\ UNCHANGED <<i, serializers>>
           ELSE /\ serializers' = found.value
                /\ i' = i + 1
                /\ UNCHANGED <<pc, models>>
    /\ UNCHANGED <<apis, classFields, api_docs, out1, out2, props, calls>>

\* Lines 93-103: the models of the collected serializers.
GetModelsReturn ==
    /\ pc = "models"
    /\ i > Len(apis)
    /\ \E built \in ModelMaps(serializers) : models' = Returned(built)
    /\ pc' = After(pc)
    /\ UNCHANGED <<apis, classFields, request, nreq, i, api_docs, serializers,
                   out1, out2, props, calls>>

Next ==
    \/ CallGenerate
    \/ GenerateStep
    \/ GenerateReturn
    \/ CallGetModels
    \/ SerializerSetStep
    \/ GetModelsReturn

Spec == Init /\ [][Next]_vars

(************************* the field mapping alone *************************)
\* _get_serializer_fields on a serializer class with any fields.
Mapped == "app1.A"

FieldNames == <<"id", "name", "count", "title">>

FieldPool ==
    {FieldOf(t, req, mn, mx, dflt, ro) :
        t \in {"string", "integer"},
        req \in {Missing, Value("True"), Value("False")},
        mn \in {Missing, Value("1")},
        mx \in {Missing, Value("9")},
        dflt \in {Missing, Value(None), Value("x"), Callable("y")},
        ro \in {Missing, Value("True")}}

\* Plain shapes, for the fields after the first.
FurtherFields ==
    {FieldOf("string", req, Missing, Missing, dflt, Missing) :
        req \in {Missing, Value("True")}, dflt \in {Missing, Callable("y")}}

FieldSets ==
    UNION {{first @@ further :
                first \in [{FieldNames[k] : k \in 1..n} \cap {FieldNames[1]}
                            -> FieldPool],
                further \in [{FieldNames[k] : k \in 2..n} -> FurtherFields]} :
            n \in 0..MaxFields}

InitFields ==
    /\ classFields \in {[c \in {Mapped} |-> fs] : fs \in FieldSets}
    /\ apis = <<>>
    /\ request = Idle
    /\ nreq = 0
    /\ pc = "fields"
    /\ i = 0
    /\ api_docs = <<>>
    /\ serializers = {Mapped}
    /\ out1 = Returned(<<>>)
    /\ out2 = Returned(<<>>)
    /\ models = Returned(NoModels)
    /\ props = NoModels
    /\ calls = Idle

\* Line 96: properties = self._get_serializer_fields(serializer)
MapFields ==
    /\ pc = "fields"
    /\ \E serializer \in serializers :
          props' = _get_serializer_fields(serializer)
    /\ pc' = "mapped"
    /\ UNCHANGED <<apis, classFields, request, nreq, i, api_docs, serializers,
                   out1, out2, models, calls>>

NextFields == MapFields

SpecFields == InitFields /\ [][NextFields]_vars

(************************** two interleaved calls **************************)
\* Two threads, each running generate or get_models on a route list of its
\* own; the handler classes, and so their request slots, are shared.  A call
\* sets the slot of a route's handler (line 40 or 122) and then issues its
\* queries on that handler one by one: for get_models the default
\* serializer (line 125), then in both the queries of each method
\* introspector (lines 47-82, 134-143).
Threads == {"t1", "t2"}

ConcHandlers ==
    {Handler(FALSE, "app1.A", Scalar(None), Scalar(None), ms, {}, None) :
        ms \in {<<"GET">>, <<"GET", "POST">>}}

ConcRouteLists ==
    UNION {[1..n -> {Route("/a", h) : h \in ConcHandlers}] :
            n \in 1..MaxConcRoutes}

NotSeen == [ctx |-> NoRequest, fresh |-> NoRequest, route |-> 0]

NewCall(kind, routes) ==
    [kind |-> kind, apis |-> routes, i |-> 1, m |-> 0,
     own |-> NoRequest, seen |-> NotSeen]

InitConc ==
    /\ calls \in [Threads ->
                    {NewCall(kind, routes) :
                        kind \in {"generate", "get_models"},
                        routes \in ConcRouteLists}]
    /\ classFields = AppFields
    /\ request = [h \in ConcHandlers |-> NoRequest]
    /\ nreq = 0
    /\ pc = "interleaved"
    /\ i = 0
    /\ api_docs = <<>>
    /\ serializers = {}
    /\ out1 = Returned(<<>>)
    /\ out2 = Returned(<<>>)
    /\ models = Returned(NoModels)
    /\ props = NoModels
    /\ apis = <<>>

\* The queries a call issues on the handler of its current route.
Queries(call) ==
    Len(call.apis[call.i].callback.methods)
        + (IF call.kind = "get_models" THEN 1 ELSE 0)

Advance(call) ==
    IF call.m >= Queries(call)
    THEN [call EXCEPT !.i = call.i + 1, !.m = 0]
    ELSE [call EXCEPT !.m = call.m + 1]

\* Lines 40 and 122, by thread t.
ThreadSetRequest(t) ==
    LET call == calls[t]
    IN  /\ pc = "interleaved"
        /\ call.i <= Len(call.apis)
        /\ call.m = 0
        /\ SetRequest(call.apis[call.i].callback, t)
        /\ calls' = [calls EXCEPT ![t] =
                        Advance([call EXCEPT !.own = HttpRequest(t)])]
        /\ UNCHANGED <<apis, classFields, pc, i, api_docs, serializers, out1,
                       out2, models, props>>

\* One query of thread t on the handler of its current route: it runs with
\* whatever the handler's request slot holds now.
ThreadQuery(t) ==
    LET call == calls[t]
    IN  /\ pc = "interleaved"
        /\ call.i <= Len(call.apis)
        /\ call.m >= 1
        /\ calls' = [calls EXCEPT ![t] =
                        Advance([call EXCEPT !.seen =
                            [ctx |-> request[call.apis[call.i].callback],
                             fresh |-> call.own,
                             route |-> call.i]])]
        /\ UNCHANGED <<apis, classFields, request, nreq, pc, i, api_docs,
                       serializers, out1, out2, models, props>>

NextConc == \E t \in Threads : ThreadSetRequest(t) \/ ThreadQuery(t)

SpecConc == InitConc /\ [][NextConc]_vars

(***************************************************************************)
(*                              Properties                                 *)
(***************************************************************************)
Gen1Done == pc \notin {"call1", "gen1"}
Gen2Done == pc \in {"call3", "models", "done"}
ModelsDone == pc = "done"

\* The lists the finished calls of generate returned.
ReturnedDocs ==
    (IF Gen1Done /\ ~out1.raised THEN {out1.value} ELSE {})
    \cup (IF Gen2Done /\ ~out2.raised THEN {out2.value} ELSE {})

\* The (route, method) positions of the route list.
Positions ==
    UNION {{<<k, j>> : j \in 1..Len(apis[k].callback.methods)} :
            k \in DOMAIN apis}

HandlerAt(p) == apis[p[1]].callback
MethodAt(p) == apis[p[1]].callback.methods[p[2]]
OperationAt(docs, p) == docs[p[1]].operations[p[2]]

\* Every returned list has one operation per method the handler serves, in
\* the order the handler introspector enumerates them.
OperationsShaped(docs) ==
    /\ Len(docs) = Len(apis)
    /\ \A k \in DOMAIN apis :
        Len(docs[k].operations) = Len(apis[k].callback.methods)
    /\ \A p \in Positions : OperationAt(docs, p).httpMethod = MethodAt(p)

\* C1: generate(R) returns exactly len(R) entries, the i-th carrying the
\* path of the i-th route, in input order; routes with the same path or the
\* same handler class are not merged.
C1_OneEntryPerRoute ==
    \A docs \in ReturnedDocs :
        /\ Len(docs) = Len(apis)
        /\ \A k \in DOMAIN apis : docs[k].path = apis[k].path

C1_Witness ==
    /\ Gen1Done /\ ~out1.raised
    /\ Len(apis) = 2
    /\ apis[1] = apis[2]
    /\ Len(out1.value) = 2
    /\ out1.value[1].path = out1.value[2].path

\* The response model the claims assign to a method of a handler.
DefaultSerializer(h) == IF h.serializer = NoAttr THEN None ELSE h.serializer

EffectiveModel(h, m) ==
    IF h.response_class = Scalar(None) THEN DefaultSerializer(h)
    ELSE IF h.response_class.isdict THEN h.response_class.map[m]
    ELSE h.response_class.val

\* The operation names exactly this model, or none when there is none.
Names(operation, model) ==
    IF model \in SerializerClasses
    THEN /\ "responseClass" \in DOMAIN operation
         /\ operation.responseClass = get_serializer_name(model)
    ELSE "responseClass" \notin DOMAIN operation

\* C2: the response model of an operation is the handler's default
\* serializer when the response override is absent, the override when it is
\* a single class, and the override's entry for the operation's HTTP method
\* when it is a mapping.
C2_EffectiveResponseModel ==
    \A docs \in ReturnedDocs :
        /\ OperationsShaped(docs)
        /\ \A p \in Positions :
            LET h == HandlerAt(p)
                rc == h.response_class
                op == OperationAt(docs, p)
            IN  /\ rc = Scalar(None) => Names(op, DefaultSerializer(h))
                /\ ~rc.isdict /\ rc.val \in SerializerClasses
                      => Names(op, rc.val)
                /\ rc.isdict
                      => /\ MethodAt(p) \in DOMAIN rc.map
                         /\ Names(op, rc.map[MethodAt(p)])

C2_Witness ==
    /\ Gen1Done /\ ~out1.raised
    /\ Len(apis) = 1
    /\ apis[1].callback.methods = <<"GET", "POST">>
    /\ apis[1].callback.response_class =
          Dict([m \in HttpMethods |->
                    IF m = "GET" THEN "app1.A" ELSE "app1.B"])
    /\ out1.value[1].operations[1].responseClass = "A"
    /\ out1.value[1].operations[2].responseClass = "B"

\* An override that is present and empty for method m: the empty string, or
\* a mapping whose entry for m is the empty string.
EmptyOverride(rc, m) ==
    \/ rc = Scalar(Empty)
    \/ rc.isdict /\ m \in DOMAIN rc.map /\ rc.map[m] = Empty

\* A handler that serves a method and whose response override is the
\* empty mapping.
EmptyMapping ==
    \E k \in DOMAIN apis :
        /\ apis[k].callback.response_class = Dict(NoMap)
        /\ apis[k].callback.methods # <<>>

AlwaysKeys == {"httpMethod", "summary", "nickname", "notes"}

C4_OptionalKeys ==
    \A docs \in ReturnedDocs :
        /\ OperationsShaped(docs)
        /\ \A p \in Positions :
            LET h == HandlerAt(p)
                m == MethodAt(p)
                op == OperationAt(docs, p)
            IN  /\ AlwaysKeys \subseteq DOMAIN op
                /\ DOMAIN op \subseteq
                      AlwaysKeys \cup {"responseClass", "parameters"}
                /\ "responseClass" \in DOMAIN op
                      <=> EffectiveModel(h, m) \in SerializerClasses
                /\ "responseClass" \in DOMAIN op
                      => op.responseClass \notin {None, Empty}
                /\ "parameters" \in DOMAIN op <=> m \in h.params
                /\ "parameters" \in DOMAIN op => Len(op.parameters) > 0

C4_Witness ==
    /\ Gen1Done /\ ~out1.raised
    /\ Len(apis) = 1
    /\ apis[1].callback.serializer \in {NoAttr, None}
    /\ apis[1].callback.response_class = Scalar(None)
    /\ apis[1].callback.request_class = Scalar(None)
    /\ apis[1].callback.params = {}
    /\ apis[1].callback.methods = <<"GET", "POST">>
    /\ \A j \in 1..2 : DOMAIN out1.value[1].operations[j] = AlwaysKeys

\* The entry of an override for method m (a mapping must have the key).
Resolved(override, m) ==
    IF override.isdict THEN override.map[m] ELSE override.val

\* The serializer classes the routes refer to: a handler's default
\* serializer, or a request or response override of one of its methods.
Referenced ==
    {c \in SerializerClasses :
        \E k \in DOMAIN apis :
            LET h == apis[k].callback
            IN  \/ c = DefaultSerializer(h)
                \/ \E j \in DOMAIN h.methods :
                   \E override \in {h.request_class, h.response_class} :
                      /\ override.isdict => h.methods[j] \in DOMAIN override.map
                      /\ c = Resolved(override, h.methods[j])}

\* C5 as stated: get_models returns as many entries as there are distinct
\* serializer classes referred to.
C5_OneModelPerClass ==
    ModelsDone /\ ~models.raised
        => Cardinality(DOMAIN models.value) = Cardinality(Referenced)

\* C5, amended: get_models returns one ModelDescriptor per distinct bare
\* class name among the classes referred to, however many routes or methods
\* refer to a class; the entry of a name describes one of the classes with
\* that name; the entries are as many as the classes when no two of the
\* classes share a name.
C5_OneModelPerName ==
    ModelsDone /\ ~models.raised
        => /\ DOMAIN models.value = {ClassName(c) : c \in Referenced}
           /\ \A key \in DOMAIN models.value :
                \E c \in Referenced :
                    /\ ClassName(c) = key
                    /\ models.value[key] = ModelDescriptor(c)
           /\ (\A c, d \in Referenced : ClassName(c) = ClassName(d) => c = d)
                => Cardinality(DOMAIN models.value) = Cardinality(Referenced)

C5_Witness ==
    /\ ModelsDone /\ ~models.raised
    /\ Len(apis) = 2
    /\ apis[1].callback.serializer = "app1.A"
    /\ apis[2].callback.serializer = "app1.A"
    /\ apis[1].callback.response_class.isdict
    /\ apis[2].callback.response_class = Scalar(None)
    /\ Referenced = {"app1.A", "app1.B"}
    /\ DOMAIN models.value = {"A", "B"}

\* An override mapping of a handler that lacks the key of one of the
\* methods the handler serves.
LacksKey(override, h) ==
    /\ override.isdict
    /\ \E j \in DOMAIN h.methods : h.methods[j] \notin DOMAIN override.map

ResponseMalformed ==
    \E k \in DOMAIN apis :
        LacksKey(apis[k].callback.response_class, apis[k].callback)

RequestMalformed ==
    \E k \in DOMAIN apis :
        LacksKey(apis[k].callback.request_class, apis[k].callback)

C10_ReferenceClosure ==
    ModelsDone /\ ~out1.raised /\ ~models.raised
        => /\ \A p \in Positions :
                LET op == OperationAt(out1.value, p)
                IN  "responseClass" \in DOMAIN op
                      => /\ op.responseClass \in DOMAIN models.value
                         /\ models.value[op.responseClass].id
                               = op.responseClass
           /\ \A key \in DOMAIN models.value : models.value[key].id = key

C10_Witness ==
    /\ ModelsDone /\ ~out1.raised /\ ~models.raised
    /\ Len(apis) = 1
    /\ apis[1].callback.serializer = None
    /\ apis[1].callback.response_class = Scalar("app2.A")
    /\ apis[1].callback.methods = <<"GET">>
    /\ out1.value[1].operations[1].responseClass = "A"
    /\ DOMAIN models.value = {"A"}

\* What the claims expect of one attribute of a property: the field's
\* attribute when it has one, None when it has not.
AsIs(attribute) ==
    IF attribute.kind = "missing" THEN Value(None) ELSE attribute

\* ... and of the default: the result of calling it when it is callable.
ResolvedDefault(attribute) ==
    IF attribute.kind = "callable" THEN Value(attribute.v)
    ELSE AsIs(attribute)

\* C8: the properties of a model have the serializer's field names as keys;
\* each has the field's type label, valueType "RANGE", required, min, max
\* and readOnly as the field has them (None when it has not), and as
\* defaultValue the field's default, called when it is callable, None when
\* the field has none.
C8_FieldMapping ==
    pc = "mapped"
        => /\ DOMAIN props = DOMAIN classFields[Mapped]
           /\ \A name \in DOMAIN props :
                LET field == classFields[Mapped][name]
                    p == props[name]
                IN  /\ DOMAIN p = {"type", "required", "allowableValues"}
                    /\ DOMAIN p.allowableValues =
                          {"min", "max", "defaultValue", "readOnly",
                           "valueType"}
                    /\ p.type = field.type_label
                    /\ p.allowableValues.valueType = "RANGE"
                    /\ p.required = AsIs(field.required)
                    /\ p.allowableValues.min = AsIs(field.min_length)
                    /\ p.allowableValues.max = AsIs(field.max_length)
                    /\ p.allowableValues.readOnly = AsIs(field.read_only)
                    /\ p.allowableValues.defaultValue
                          = ResolvedDefault(field.default)

C8_Witness ==
    /\ pc = "mapped"
    /\ DOMAIN props = {"id", "name"}
    /\ classFields[Mapped]["name"].default = Missing
    /\ props["name"].allowableValues.defaultValue = Value(None)
    /\ classFields[Mapped]["id"].default = Callable("y")
    /\ classFields[Mapped]["id"].required = Missing
    /\ classFields[Mapped]["id"].type_label = "integer"
    /\ props["id"].allowableValues.defaultValue = Value("y")
    /\ props["id"].required = Value(None)
    /\ props["id"].allowableValues.valueType = "RANGE"

\* The handler of the route a call's latest query ran on.
QueriedHandler(call) == call.apis[call.seen.route].callback

\* A query of thread t ran with a request of its handler's slot that some
\* call constructed: the one t itself set for that route, or one the other
\* call set on the same handler class after it.
ObservedSlot(t) ==
    LET call == calls[t]
    IN  call.seen.route # 0
          => /\ call.seen.ctx.owner \in Threads
             /\ call.seen.ctx.owner = t => call.seen.ctx = call.seen.fresh
             /\ call.seen.ctx.owner # t
                  => /\ call.seen.ctx.serial > call.seen.fresh.serial
                     /\ QueriedHandler(call)
                          \in HandlersOf(calls[call.seen.ctx.owner].apis)

\* A step writes nothing shared but the request slot of the handler of the
\* route the stepping call is at, and writes a request constructed for it.
WritesOnlySlot ==
    /\ classFields' = classFields
    /\ \A t \in Threads : calls'[t].apis = calls[t].apis
    /\ \A h \in DOMAIN request :
          request'[h] # request[h]
            => \E t \in Threads :
                 /\ calls[t].i <= Len(calls[t].apis)
                 /\ calls[t].m = 0
                 /\ calls[t].apis[calls[t].i].callback = h
                 /\ request'[h] = [owner |-> t, serial |-> nreq + 1]
                 /\ \A g \in DOMAIN request \ {h} : request'[g] = request[g]

\* C9: the calls write no shared state but the request slot of each route's
\* handler class, set anew before the handler is queried; a query runs with
\* the slot as it then is, its own call's request or one the other call has
\* put there since.
C9_SharedSlot ==
    /\ [](\A t \in Threads : ObservedSlot(t))
    /\ [][WritesOnlySlot]_vars

\* A query of one call ran with the request the other call installed.
C9_Witness ==
    \E t \in Threads :
        /\ calls[t].seen.route # 0
        /\ calls[t].seen.ctx.owner \in Threads \ {t}
        /\ calls[t].seen.fresh.owner = t

====
